---- MODULE Spec2Model ----
(***************************************************************************)
(* A model of the client side of rust-jack: the JackClient trait of        *)
(* src/client/base.rs (port registration, connection and disconnection by  *)
(* name) and the callback bridge of src/client/callbacks.rs                *)
(* (register_callbacks, clear_callbacks and the trampolines).              *)
(*                                                                         *)
(* The JACK engine itself is reached through jack_sys (j::...).  Its side  *)
(* of every call is modelled by the operators named jack_...; they follow  *)
(* the contract documented in the doc comments of base.rs and in the       *)
(* specification, and hold the engine's state (ports, conns, active, cbs). *)
(***************************************************************************)
EXTENDS Integers, Sequences, FiniteSets, TLC

VARIABLES
    ports,   \* engine: the registered ports, records [name, client, short, spec]
    conns,   \* engine: the connections, pairs <<source full name, destination full name>>
    active,  \* engine: the clients that have been activated
    ret,     \* outcome of the last JackClient call: [op, val]
    links,   \* observer: the links the caller holds to exist, from the Ok results it got
    scen,    \* observer: results of the connect, connect, disconnect, disconnect scenario
    heap,    \* the HandlerState allocations, by address: [st, handler, client, how]
    cbs,     \* engine: per client and callback kind, the registered context (0: none)
    stopped, \* engine: the clients whose process callback returned the stop code
    cleared, \* the clients for which clear_callbacks returned Ok since they registered
    cret,    \* outcome of the last register_callbacks or clear_callbacks call: [op, val]
    plog,    \* observer: per address, the codes the process calls of a counting handler returned
    ub,      \* "none", or how a trampoline that read a freed HandlerState or panicked ended
    hcall,   \* observer: the last trampoline call: [call, data, client, calls, code]
    inflight, \* engine: per thread, the trampoline call in flight: [call, data, client]
    bufsize, \* engine: the buffer size
    open,    \* engine: the clients whose native connection is open
    owners,  \* the clients whose owning Client handle exists
    weaks    \* per client, the number of WeakClient values that alias its connection

portVars == <<ports, conns, active, ret, links, scen>>
cbVars == <<heap, cbs, stopped, cleared, cret, plog, ub>>
clVars == <<bufsize, open, owners, weaks>>
extVars == <<hcall, inflight, bufsize, open, owners, weaks>>
vars == <<ports, conns, active, ret, links, scen, heap, cbs, stopped, cleared, cret, plog, ub,
          hcall, inflight, bufsize, open, owners, weaks>>

(***************************************************************************)
(* Bounds and inputs.                                                      *)
(***************************************************************************)

\* Port::name_size(), the maximum length of a full port name, scaled down.
PortNameSize == 8

\* libc::EEXIST, the status jack_connect answers for an existing connection.
EEXIST == 17

Clients == {"app", "fx"}

\* The client whose handle makes the connect and disconnect calls.
Callers == {"app"}

\* PortSpec values: jack_port_type() and jack_flags().
AudioOutSpec == [type |-> "32 bit float mono audio", flags |-> {"IS_OUTPUT"}]
AudioInSpec == [type |-> "32 bit float mono audio", flags |-> {"IS_INPUT"}]
MidiInSpec == [type |-> "8 bit raw midi", flags |-> {"IS_INPUT"}]

\* The strings among the inputs that hold an interior NUL byte.
NulStrings == {"a\\0b", "toolong_\\0_name"}

\* The register_port calls the application makes: <<client, port_name, port_spec>>.
RegInputs ==
    {<<"app", "out", AudioOutSpec>>, <<"app", "in", AudioInSpec>>,
     <<"app", "in", MidiInSpec>>, <<"app", "o2", AudioOutSpec>>,
     <<"app", "toolong_name", AudioInSpec>>, <<"app", "a\\0b", AudioInSpec>>,
     <<"app", "toolong_\\0_name", AudioInSpec>>,
     <<"fx", "in", AudioInSpec>>}

\* The port names the application passes to connect and disconnect.
ConnNames == {"app:out", "app:in", "app:o2", "fx:in", "app:nope", "a\\0b"}

(***************************************************************************)
(* JackErr and the results of the calls.                                   *)
(***************************************************************************)

Ok == [tag |-> "Ok"]
OkPort(spec, client, pp) == [tag |-> "OkPort", spec |-> spec, client |-> client, port |-> pp]
PortRegistrationError(name) == [tag |-> "PortRegistrationError", name |-> name]
PortAlreadyConnected(a, b) == [tag |-> "PortAlreadyConnected", a |-> a, b |-> b]
PortConnectionError(a, b) == [tag |-> "PortConnectionError", a |-> a, b |-> b]
PortDisconnectionError == [tag |-> "PortDisconnectionError"]
CallbackRegistrationError == [tag |-> "CallbackRegistrationError"]
Panic == [tag |-> "panic"]

\* ffi::CString::new: fails on a string with an interior NUL byte.
CStringNew(s) ==
    IF s \in NulStrings THEN [tag |-> "NulError"] ELSE [tag |-> "Ok", bytes |-> s]

(***************************************************************************)
(* The engine's side of the calls.                                         *)
(***************************************************************************)

NullPort == [name |-> "", client |-> "", short |-> "", spec |-> [type |-> "", flags |-> {}]]

FullName(client, short) == client \o ":" \o short

IsPort(n) == \E p \in ports : p.name = n

PortNamed(n) == CHOOSE p \in ports : p.name = n

\* The four preconditions of a connection.
ConnectPreconditions(s, d) ==
    /\ IsPort(s) /\ IsPort(d)
    /\ PortNamed(s).spec.type = PortNamed(d).spec.type
    /\ "IS_OUTPUT" \in PortNamed(s).spec.flags
    /\ "IS_INPUT" \in PortNamed(d).spec.flags
    /\ PortNamed(s).client \in active
    /\ PortNamed(d).client \in active

\* j::jack_port_register: the new port, or null when the full name is too long or
\* the client already has a port of that short name.
jack_port_register(client, short, spec) ==
    IF \/ Len(FullName(client, short)) > PortNameSize
       \/ \E p \in ports : p.client = client /\ p.short = short
    THEN NullPort
    ELSE [name |-> FullName(client, short), client |-> client, short |-> short, spec |-> spec]

\* j::jack_connect: the status the engine answers and the connections it then
\* holds.  An unknown port is answered -1, a violated precondition 22 (EINVAL), an
\* existing connection EEXIST.
jack_connect(s, d) ==
    IF ~(IsPort(s) /\ IsPort(d)) THEN [res |-> -1, conns |-> conns]
    ELSE IF ~ConnectPreconditions(s, d) THEN [res |-> 22, conns |-> conns]
    ELSE IF <<s, d>> \in conns THEN [res |-> EEXIST, conns |-> conns]
    ELSE [res |-> 0, conns |-> conns \cup {<<s, d>>}]

\* j::jack_disconnect: the status the engine answers and the connections it then
\* holds.
jack_disconnect(s, d) ==
    IF <<s, d>> \in conns
    THEN [res |-> 0, conns |-> conns \ {<<s, d>>}]
    ELSE [res |-> -1, conns |-> conns]

(***************************************************************************)
(* The observers.                                                          *)
(***************************************************************************)

ScenSrc == "app:out"
ScenDst == "app:in"
ScenOps == <<"connect", "connect", "disconnect", "disconnect">>

\* The scenario's results so far: it starts with a connect of the scenario's pair
\* when the pair is connectable and not connected, goes on while the calls are the
\* scenario's, and starts over on any other connect or disconnect.
ScenNext(op, s, d, val) ==
    IF <<s, d>> # <<ScenSrc, ScenDst>> THEN <<>>
    ELSE IF Len(scen) \in 1..3 /\ op = ScenOps[Len(scen) + 1] THEN Append(scen, val)
    ELSE IF op = "connect" /\ ConnectPreconditions(s, d) /\ <<s, d>> \notin conns
    THEN <<val>>
    ELSE <<>>

(***************************************************************************)
(* JackClient.                                                             *)
(***************************************************************************)

\* The result of register_port from the pointer the engine answered.
RegisterResult(client, name, spec, pp) ==
    IF pp = NullPort THEN PortRegistrationError(name) ELSE OkPort(spec, client, pp)

\* ConnectResult without the EEXIST arm of the match.
ConnectResult_NoEexistArm(res, source_port, destination_port) ==
    IF res = 0 THEN Ok ELSE PortConnectionError(source_port, destination_port)

\* ConnectResult with every status but EEXIST taken for success.
ConnectResult_ErrorAsOk(res, source_port, destination_port) ==
    IF res = EEXIST THEN PortAlreadyConnected(source_port, destination_port) ELSE Ok

\* ConnectResult with the two names of the generic error exchanged.
ConnectResult_NamesSwapped(res, source_port, destination_port) ==
    IF res = 0 THEN Ok
    ELSE IF res = EEXIST THEN PortAlreadyConnected(source_port, destination_port)
    ELSE PortConnectionError(destination_port, source_port)

\* The result of connect_ports_by_name from the status the engine answered.
ConnectResult(res, source_port, destination_port) ==
    IF res = 0 THEN Ok
    ELSE IF res = EEXIST THEN PortAlreadyConnected(source_port, destination_port)
    ELSE PortConnectionError(source_port, destination_port)

\* DisconnectResult with the engine's status ignored.
DisconnectResult_StatusIgnored(res) == Ok

\* The result of disconnect_ports_by_name from the status the engine answered.
DisconnectResult(res) ==
    IF res = 0 THEN Ok ELSE PortDisconnectionError

register_port(client, port_name, port_spec) ==
    /\ client \in open
    /\ IF CStringNew(port_name).tag # "Ok" \/ CStringNew(port_spec.type).tag # "Ok"
       THEN /\ ret' = [op |-> "register_port", val |-> Panic]
            /\ UNCHANGED ports
       ELSE LET pp == jack_port_register(client, port_name, port_spec)
            IN /\ ports' = IF pp = NullPort THEN ports ELSE ports \cup {pp}
               /\ ret' = [op |-> "register_port",
                          val |-> RegisterResult(client, port_name, port_spec, pp)]
    /\ UNCHANGED <<conns, active, links, scen, cbVars, extVars>>

connect_ports_by_name(client, source_port, destination_port) ==
    /\ client \in Callers
    /\ client \in open
    /\ IF CStringNew(source_port).tag # "Ok" \/ CStringNew(destination_port).tag # "Ok"
       THEN /\ ret' = [op |-> "connect", val |-> Panic]
            /\ scen' = <<>>
            /\ UNCHANGED <<conns, links>>
       ELSE LET o == jack_connect(source_port, destination_port)
                val == ConnectResult(o.res, source_port, destination_port)
            IN /\ conns' = o.conns
               /\ ret' = [op |-> "connect", val |-> val]
               /\ links' = IF val = Ok
                           THEN links \cup {<<source_port, destination_port>>}
                           ELSE links
               /\ scen' = ScenNext("connect", source_port, destination_port, val)
    /\ UNCHANGED <<ports, active, cbVars, extVars>>

disconnect_ports_by_name(client, source_port, destination_port) ==
    /\ client \in Callers
    /\ client \in open
    /\ IF CStringNew(source_port).tag # "Ok" \/ CStringNew(destination_port).tag # "Ok"
       THEN /\ ret' = [op |-> "disconnect", val |-> Panic]
            /\ scen' = <<>>
            /\ UNCHANGED <<conns, links>>
       ELSE LET o == jack_disconnect(source_port, destination_port)
                val == DisconnectResult(o.res)
            IN /\ conns' = o.conns
               /\ ret' = [op |-> "disconnect", val |-> val, res |-> o.res]
               /\ links' = IF val = Ok
                           THEN links \ {<<source_port, destination_port>>}
                           ELSE links
               /\ scen' = ScenNext("disconnect", source_port, destination_port, val)
    /\ UNCHANGED <<ports, active, cbVars, extVars>>

\* The engine activates a client (jack_activate, reached through AsyncClient).
Activate(client) ==
    /\ client \in open
    /\ client \notin active
    /\ active' = active \cup {client}
    /\ UNCHANGED <<ports, conns, ret, links, scen, cbVars, extVars>>

(***************************************************************************)
(* JackClient: the buffer size, input monitoring and the port query, as    *)
(* called through the owning Client handle or through a WeakClient.        *)
(***************************************************************************)

\* The WeakClient values made for one client at a time.
MaxWeak == 2

SetBufferSizeError == [tag |-> "SetBufferSizeError"]
PortMonitorError == [tag |-> "PortMonitorError"]
TimeError == [tag |-> "TimeError"]

\* Option values.
None == [tag |-> "None"]
Some(v) == [tag |-> "Some", v |-> v]

\* Option::unwrap_or.
unwrap_or(opt, default) == IF opt.tag = "Some" THEN opt.v ELSE default

\* The statuses the engine answers a request it refuses with.
ErrorStatuses == {-1, 1, EEXIST}

\* The buffer sizes the application asks for.
BufferSizes == {64, 128}

\* The port names the application asks monitoring for.
MonitorNames == {"app:in", "app:nope", "a\\0b"}

\* The patterns and flags the application passes to ports.
NamePatterns == {None, Some(""), Some("app:in")}
TypePatterns == {None, Some("")}
FlagFilters == {{}, {"IS_INPUT"}}

\* The handles a call is made through.
Handles == {"owner", "weak"}

\* The client has a handle of the kind, and its connection is open.
HasHandle(client, via) ==
    /\ client \in open
    /\ IF via = "owner" THEN client \in owners ELSE weaks[client] > 0

\* j::jack_set_buffer_size: the engine changes the buffer size and answers 0, or
\* refuses and answers a non-zero status.
jack_set_buffer_size(n_frames) ==
    {[res |-> 0, bufsize |-> n_frames]}
        \cup {[res |-> e, bufsize |-> bufsize] : e \in ErrorStatuses}

\* j::jack_port_request_monitor_by_name: 0 for a port the engine knows (nothing
\* happens for a port without the CAN_MONITOR flag), a non-zero status otherwise.
jack_port_request_monitor_by_name(port_name, onoff) ==
    IF IsPort(port_name) THEN {0} ELSE ErrorStatuses

\* Whether a name matches a pattern; the patterns of the inputs are the empty
\* pattern, which selects nothing out, and full names.
RegexMatches(name, pattern) == pattern = "" \/ name = pattern

\* j::jack_get_ports: the names of the ports selected, or null when there is none.
jack_get_ports(pnp, tnp, flags) ==
    LET strs == {p.name : p \in {q \in ports : /\ RegexMatches(q.name, pnp)
                                                /\ RegexMatches(q.spec.type, tnp)
                                                /\ flags \subseteq q.spec.flags}}
    IN [null |-> strs = {}, strs |-> strs]

\* jack_utils::collect_strs: the strings of a null-terminated array, none for null.
collect_strs(ptr) == IF ptr.null THEN {} ELSE ptr.strs

\* The result of set_buffer_size with the error of disconnect_ports_by_name.
SetBufferSizeResult_SharedError(res) ==
    IF res = 0 THEN Ok ELSE PortDisconnectionError

\* The result of set_buffer_size from the status the engine answered.
SetBufferSizeResult(res) ==
    IF res = 0 THEN Ok ELSE SetBufferSizeError

\* The result of request_monitor_by_name from the status the engine answered.
RequestMonitorResult(res) ==
    IF res = 0 THEN Ok ELSE PortMonitorError

\* The pattern passed to the engine, with a star where no pattern is given.
PatternArg_Star(pattern) == unwrap_or(pattern, "*")

\* The pattern passed to the engine: pattern.unwrap_or("").
PatternArg(pattern) == unwrap_or(pattern, "")

set_buffer_size(client, via, n_frames) ==
    /\ HasHandle(client, via)
    /\ \E o \in jack_set_buffer_size(n_frames) :
         /\ bufsize' = o.bufsize
         /\ ret' = [op |-> "set_buffer_size", val |-> SetBufferSizeResult(o.res),
                    res |-> o.res, via |-> via]
    /\ UNCHANGED <<ports, conns, active, links, scen, cbVars, hcall, inflight,
                   open, owners, weaks>>

request_monitor_by_name(client, via, port_name, enable_monitor) ==
    /\ HasHandle(client, via)
    /\ IF CStringNew(port_name).tag # "Ok"
       THEN ret' = [op |-> "request_monitor", val |-> Panic, via |-> via]
       ELSE \E res \in jack_port_request_monitor_by_name(port_name,
                                                         IF enable_monitor THEN 1 ELSE 0) :
                ret' = [op |-> "request_monitor", val |-> RequestMonitorResult(res),
                        res |-> res, via |-> via]
    /\ UNCHANGED <<ports, conns, active, links, scen, cbVars, extVars>>

JackClient_ports(client, via, port_name_pattern, type_name_pattern, flags) ==
    /\ HasHandle(client, via)
    /\ LET pnp == CStringNew(PatternArg(port_name_pattern))
           tnp == CStringNew(PatternArg(type_name_pattern))
       IN IF pnp.tag # "Ok" \/ tnp.tag # "Ok"
          THEN ret' = [op |-> "ports", val |-> Panic, via |-> via]
          ELSE ret' = [op |-> "ports",
                       val |-> collect_strs(jack_get_ports(pnp.bytes, tnp.bytes, flags)),
                       via |-> via,
                       args |-> <<port_name_pattern, type_name_pattern, flags>>]
    /\ UNCHANGED <<ports, conns, active, links, scen, cbVars, extVars>>

\* WeakClient::from_raw: one more value that aliases the client's connection.
WeakClient_from_raw(client) ==
    /\ client \in open
    /\ weaks[client] < MaxWeak
    /\ weaks' = [weaks EXCEPT ![client] = @ + 1]
    /\ UNCHANGED <<portVars, cbVars, hcall, inflight, bufsize, open, owners>>

\* The open connections after a WeakClient of the client is dropped, closing
\* the connection.
WeakClient_drop_Closes(client) == open \ {client}

\* The open connections after a WeakClient of the client is dropped: the type has
\* no Drop, nothing is closed.
WeakClient_drop(client) == open

DropWeak(client) ==
    /\ weaks[client] > 0
    /\ weaks' = [weaks EXCEPT ![client] = @ - 1]
    /\ open' = WeakClient_drop(client)
    /\ UNCHANGED <<portVars, cbVars, hcall, inflight, bufsize, owners>>

\* The owning Client handle is dropped: the connection is closed, and the engine
\* forgets the client, its ports and their connections.
DropClient(client) ==
    /\ client \in owners
    /\ owners' = owners \ {client}
    /\ open' = open \ {client}
    /\ ports' = {p \in ports : p.client # client}
    /\ conns' = {c \in conns : \A i \in {1, 2} : \E p \in ports' : p.name = c[i]}
    /\ links' = {c \in links : \A i \in {1, 2} : \E p \in ports' : p.name = c[i]}
    /\ active' = active \ {client}
    /\ ret' = [op |-> "drop", val |-> Ok]
    /\ UNCHANGED <<scen, cbVars, hcall, inflight, bufsize, weaks>>

(***************************************************************************)
(* The callback bridge: handlers, HandlerState and the trampolines.        *)
(***************************************************************************)

\* The HandlerState addresses Box::new may hand out; none is handed out twice.
MaxAllocs == 2

\* The largest cycle on which a handler of the inputs stops.
MaxStopCycle == 5

\* The frame counts the engine passes to process.
Frames == {64, 128}

Addrs == 1..MaxAllocs

\* The client whose callbacks are registered.
CbClients == {"app"}

\* The callback kinds of the native API.
CallbackKinds ==
    {"thread_init", "shutdown", "process", "freewheel", "buffer_size", "sample_rate",
     "client_registration", "port_registration", "port_rename", "port_connect",
     "graph_order", "xrun", "latency"}

\* The kinds whose trampoline returns a code to the engine.
VetoKinds == {"process", "buffer_size", "sample_rate", "port_rename", "graph_order", "xrun"}

\* A handler that overrides no method of JackHandler.
DefaultHandler == [type |-> "default", k |-> 0, n |-> 0]

\* ProcessHandler::new of a closure that counts its calls and returns Stop on call k.
StopAt(k) == [type |-> "ProcessHandler", k |-> k, n |-> 0]

\* The handlers the application registers.
HandlerInputs == {DefaultHandler} \cup {StopAt(k) : k \in 1..MaxStopCycle}

\* The handlers registered where the life of the HandlerState is followed.
LifecycleHandlers == {DefaultHandler, StopAt(1)}

\* An implementation of JackHandler whose methods of the given kinds return Stop and
\* whose other methods are the default ones.
Vetoer(kinds) == [type |-> "Vetoer", k |-> 0, n |-> 0, veto |-> kinds]

\* The handlers registered where the arguments of the trampolines are followed.
TrampolineHandlers == {DefaultHandler, StopAt(2), Vetoer(VetoKinds)}

\* The byte strings (without the terminating NUL) the engine passes as names and
\* reasons: "a", "e" with an acute accent, and "a" followed by a two-byte sequence
\* cut after its first byte.
ByteStrings == {<<97>>, <<195, 169>>, <<97, 195>>}

\* The libc::c_int values the engine passes as flags.
CInts == {0, 1, -1}

\* The port ids the engine passes.
PortIds == {1, 2}

\* j::JackCaptureLatency and j::JackPlaybackLatency.
JackCaptureLatency == 0
JackPlaybackLatency == 1

\* The values of jack_latency_callback_mode_t, an unsigned integer, that are
\* neither of the two modes.
OtherLatencyModes == {2}

\* The bits of jack_status_t the engine's ABI defines, JackFailure (0x01) to
\* JackClientZombie (0x1000), as bit positions.
StatusBits == 0..12

\* The status codes the engine passes to shutdown: none, JackFailure,
\* JackFailure | JackServerError, JackClientZombie, every bit.
ShutdownCodes == {0, 1, 33, 4096, 8191}

\* The statuses the engine answers to the registration calls of one
\* register_callbacks: all zero, one kind refused, or all refused.
StatusVectors ==
    {[k \in CallbackKinds |-> 0],
     [k \in CallbackKinds |-> IF k = "process" THEN -1 ELSE 0],
     [k \in CallbackKinds |-> -1]}

\* The engine's threads: the one that runs the process cycle, and the one that
\* delivers the other notifications.
Threads == {"process", "notify"}

\* No call is in flight on a thread.
NoFlight == [call |-> [kind |-> "none"], data |-> 0, client |-> ""]

\* No trampoline has been called yet.
NoCall ==
    [call |-> [kind |-> "none"], data |-> 0, client |-> "", calls |-> <<>>, code |-> "void"]

Unallocated == [st |-> "unallocated", handler |-> DefaultHandler, client |-> "", how |-> ""]

\* JackControl::to_ffi.
to_ffi(control) == IF control = "Continue" THEN 0 ELSE -1

\* WeakClient::as_ptr.
as_ptr(weak) == weak

\* ProcessScope::from_raw with the frame count left at zero.
ProcessScope_from_raw_FramesDropped(n_frames, client_ptr) ==
    [n_frames |-> 0, client_ptr |-> client_ptr]

\* ProcessScope::from_raw.
ProcessScope_from_raw(n_frames, client_ptr) ==
    [n_frames |-> n_frames, client_ptr |-> client_ptr]

\* ProcessScope::n_frames.
n_frames_of(scope) == scope.n_frames

\* ProcessScope::client_ptr.
client_ptr_of(scope) == scope.client_ptr

\* Box::new((handler, client)): the pair register_callbacks stores, with a null
\* client pointer.
HandlerState_NullClient(handler, client) ==
    [st |-> "live", handler |-> handler, client |-> "", how |-> ""]

\* Box::new((handler, client)): the pair register_callbacks stores, the handler and
\* the raw pointer of the client.
HandlerState(handler, client) ==
    [st |-> "live", handler |-> handler, client |-> client, how |-> ""]

\* handler_and_ptr_from_void: the context read as a pair (T, WeakClient).  WeakClient
\* is a repr(C) struct of one pointer, so the pointer register_callbacks stored is
\* read as the pointer the WeakClient holds.
handler_and_ptr_from_void(ptr) == <<heap[ptr].handler, heap[ptr].client>>

\* obj.1 of the pair a trampoline reads: the WeakClient, given by its pointer.
WeakOf(data) == handler_and_ptr_from_void(data)[2]

\* Whether the handler's method of a kind calls a closure the handler wraps, with every
\* kind taken to reach the closure.
CallsClosure_EveryKind(h, kind) == h.type = "ProcessHandler"

\* Whether the handler's method of a kind calls a closure the handler wraps:
\* ProcessHandler implements process by a call of its closure and keeps the
\* default methods of JackHandler for the other kinds.
CallsClosure(h, kind) == h.type = "ProcessHandler" /\ kind = "process"

\* The control a method of the handler returns, with the default xrun method
\* returning Stop.
HandlerControl_DefaultXrunStops(h, method) ==
    IF h.type = "Vetoer" /\ method \in h.veto THEN "Stop"
    ELSE IF h.type = "default" /\ method = "xrun" THEN "Stop" ELSE "Continue"

\* The control a method of the handler other than a closure returns.
HandlerControl(h, method) ==
    IF h.type = "Vetoer" /\ method \in h.veto THEN "Stop" ELSE "Continue"

\* The handler's process method: the control it returns and the handler afterwards.
\* JackHandler::process returns Continue; ProcessHandler::process calls the closure
\* through a mutable reference.
HandlerProcess(h, weak, scope) ==
    IF CallsClosure(h, "process")
    THEN [control |-> IF h.n + 1 = h.k THEN "Stop" ELSE "Continue",
          handler |-> [h EXCEPT !.n = h.n + 1]]
    ELSE [control |-> HandlerControl(h, "process"), handler |-> h]

\* What a trampoline may do when its context is a freed HandlerState: return either
\* code after reading stale memory, or crash.
FreedOutcomes ==
    {[code |-> c, heap |-> heap, ub |-> "survived", called |-> FALSE, calls |-> <<>>] :
        c \in {0, -1}}
        \cup {[code |-> 0, heap |-> heap, ub |-> "crashed", called |-> FALSE, calls |-> <<>>]}

\* The process trampoline with the handler's control dropped.
process_ControlDropped(n_frames, data) ==
    IF heap[data].st = "live"
    THEN LET obj == heap[data]
             scope == ProcessScope_from_raw(n_frames, as_ptr(obj.client))
             r == HandlerProcess(obj.handler, obj.client, scope)
         IN {[code |-> 0, heap |-> [heap EXCEPT ![data].handler = r.handler],
              ub |-> ub, called |-> TRUE,
              calls |-> <<[method |-> "process", weak |-> WeakOf(data),
                           client_ptr |-> client_ptr_of(scope),
                           n_frames |-> n_frames_of(scope), ret |-> r.control]>>]}
    ELSE FreedOutcomes

\* The process trampoline: the outcomes [code, heap, ub, called] of one call.
process(n_frames, data) ==
    IF heap[data].st = "live"
    THEN LET obj == heap[data]
             scope == ProcessScope_from_raw(n_frames, as_ptr(obj.client))
             r == HandlerProcess(obj.handler, obj.client, scope)
         IN {[code |-> to_ffi(r.control),
              heap |-> [heap EXCEPT ![data].handler = r.handler],
              ub |-> ub, called |-> TRUE,
              calls |-> <<[method |-> "process", weak |-> WeakOf(data),
                           client_ptr |-> client_ptr_of(scope),
                           n_frames |-> n_frames_of(scope), ret |-> r.control]>>]}
    ELSE FreedOutcomes

(***************************************************************************)
(* The conversions of the raw arguments.                                   *)
(***************************************************************************)

\* Whether the bytes are well-formed UTF-8, as CStr::to_str checks them.
RECURSIVE Utf8Valid(_)
Utf8Valid(b) ==
    IF b = <<>> THEN TRUE
    ELSE IF b[1] < 128 THEN Utf8Valid(Tail(b))
    ELSE IF b[1] \in 194..223
    THEN /\ Len(b) >= 2
         /\ b[2] \in 128..191
         /\ Utf8Valid(SubSeq(b, 3, Len(b)))
    ELSE IF b[1] \in 224..239
    THEN /\ Len(b) >= 3
         /\ b[2] \in (IF b[1] = 224 THEN 160..191
                      ELSE IF b[1] = 237 THEN 128..159 ELSE 128..191)
         /\ b[3] \in 128..191
         /\ Utf8Valid(SubSeq(b, 4, Len(b)))
    ELSE IF b[1] \in 240..244
    THEN /\ Len(b) >= 4
         /\ b[2] \in (IF b[1] = 240 THEN 144..191
                      ELSE IF b[1] = 244 THEN 128..143 ELSE 128..191)
         /\ b[3] \in 128..191
         /\ b[4] \in 128..191
         /\ Utf8Valid(SubSeq(b, 5, Len(b)))
    ELSE FALSE

\* ffi::CStr::from_ptr(..).to_str(): the text, which holds the bytes of the C string,
\* or an error when they are not UTF-8.
to_str(bytes) ==
    IF Utf8Valid(bytes) THEN [tag |-> "Ok", s |-> bytes] ELSE [tag |-> "Utf8Error"]

\* The bytes of the text "Failed to interpret error.".
FailedToInterpret ==
    <<70, 97, 105, 108, 101, 100, 32, 116, 111, 32, 105, 110, 116, 101, 114, 112, 114,
      101, 116, 32, 101, 114, 114, 111, 114, 46>>

\* The positions of the bits set in a native status code.
BitsOf(code) == {i \in 0..15 : (code \div 2^i) % 2 = 1}

\* ClientStatus::from_bits: the flags, or None when a bit is set that ClientStatus
\* does not define.
ClientStatus_from_bits(code) ==
    IF BitsOf(code) \subseteq StatusBits
    THEN [tag |-> "Some", v |-> BitsOf(code)]
    ELSE [tag |-> "None"]

\* ClientStatus::empty.
ClientStatus_empty == {}

\* ClientStatus::bits: the native code of the flags.
RECURSIVE ClientStatus_bits(_)
ClientStatus_bits(flags) ==
    IF flags = {} THEN 0
    ELSE LET i == CHOOSE j \in flags : TRUE
         IN 2^i + ClientStatus_bits(flags \ {i})

\* The match of a libc::c_int flag taking the positive values alone as true.
c_int_to_bool_Positive(x) == x > 0

\* The match of a libc::c_int flag: 0 => false, _ => true.
c_int_to_bool(x) == x # 0

(***************************************************************************)
(* The trampolines.  Each gives the outcomes of one call: the code handed  *)
(* back to the engine ("void" where the native signature returns nothing), *)
(* the heap and ub afterwards, and the calls made on the handler.          *)
(***************************************************************************)

Returned(code, calls) ==
    [code |-> code, heap |-> heap, ub |-> ub, called |-> TRUE, calls |-> calls]

\* A panic inside a trampoline (a failed unwrap, unreachable!()): the handler is not
\* called and the trampoline does not return to the engine.  The panic leaves an
\* extern "C" function: the runtime ends the client's process, or the unwinding
\* goes on into the frames of the engine's library.
PanicOutcomes ==
    {[code |-> "panic", heap |-> heap, ub |-> u, called |-> FALSE, calls |-> <<>>] :
        u \in {"crashed", "unwound"}}

\* FreedOutcomes for a trampoline that returns nothing.
FreedVoid == {[o EXCEPT !.code = "void"] : o \in FreedOutcomes}

thread_init_callback(data) ==
    IF heap[data].st = "live"
    THEN {Returned("void", <<[method |-> "thread_init", weak |-> WeakOf(data), ret |-> "unit"]>>)}
    ELSE FreedVoid

\* The shutdown trampoline with the reason unwrapped as the names are.
shutdown_ReasonUnwrapped(code, reason, data) ==
    IF heap[data].st = "live"
    THEN IF to_str(reason).tag # "Ok" THEN PanicOutcomes
         ELSE {Returned("void",
                 <<[method |-> "shutdown",
                    status |-> unwrap_or(ClientStatus_from_bits(code), ClientStatus_empty),
                    reason |-> to_str(reason).s, ret |-> "unit"]>>)}
    ELSE FreedVoid

\* The shutdown trampoline with the status left out.
shutdown_StatusDropped(code, reason, data) ==
    IF heap[data].st = "live"
    THEN LET reason_str == IF to_str(reason).tag = "Ok"
                           THEN to_str(reason).s ELSE FailedToInterpret
         IN {Returned("void",
                <<[method |-> "shutdown", status |-> ClientStatus_empty,
                   reason |-> reason_str, ret |-> "unit"]>>)}
    ELSE FreedVoid

shutdown(code, reason, data) ==
    IF heap[data].st = "live"
    THEN LET reason_str == IF to_str(reason).tag = "Ok"
                           THEN to_str(reason).s ELSE FailedToInterpret
         IN {Returned("void",
                <<[method |-> "shutdown",
                   status |-> unwrap_or(ClientStatus_from_bits(code), ClientStatus_empty),
                   reason |-> reason_str, ret |-> "unit"]>>)}
    ELSE FreedVoid

freewheel(starting, data) ==
    IF heap[data].st = "live"
    THEN {Returned("void",
            <<[method |-> "freewheel", weak |-> WeakOf(data),
               is_freewheel_enabled |-> c_int_to_bool(starting),
               ret |-> "unit"]>>)}
    ELSE FreedVoid

buffer_size(n_frames, data) ==
    IF heap[data].st = "live"
    THEN LET control == HandlerControl(heap[data].handler, "buffer_size")
         IN {Returned(to_ffi(control),
                <<[method |-> "buffer_size", weak |-> WeakOf(data),
                   size |-> n_frames, ret |-> control]>>)}
    ELSE FreedOutcomes

sample_rate(n_frames, data) ==
    IF heap[data].st = "live"
    THEN LET control == HandlerControl(heap[data].handler, "sample_rate")
         IN {Returned(to_ffi(control),
                <<[method |-> "sample_rate", weak |-> WeakOf(data),
                   srate |-> n_frames, ret |-> control]>>)}
    ELSE FreedOutcomes

\* The client_registration trampoline with the name decoded lossily.
client_registration_Lossy(name, register, data) ==
    IF heap[data].st = "live"
    THEN {Returned("void",
            <<[method |-> "client_registration", weak |-> WeakOf(data),
               name |-> IF to_str(name).tag = "Ok" THEN to_str(name).s
                        ELSE FailedToInterpret,
               is_registered |-> c_int_to_bool(register), ret |-> "unit"]>>)}
    ELSE FreedVoid

client_registration(name, register, data) ==
    IF heap[data].st = "live"
    THEN IF to_str(name).tag # "Ok" THEN PanicOutcomes
         ELSE {Returned("void",
                 <<[method |-> "client_registration", weak |-> WeakOf(data),
                    name |-> to_str(name).s,
                    is_registered |-> c_int_to_bool(register), ret |-> "unit"]>>)}
    ELSE FreedVoid

port_registration(port_id, register, data) ==
    IF heap[data].st = "live"
    THEN {Returned("void",
            <<[method |-> "port_registration", weak |-> WeakOf(data), port_id |-> port_id,
               is_registered |-> c_int_to_bool(register), ret |-> "unit"]>>)}
    ELSE FreedVoid

port_rename(port_id, old_name, new_name, data) ==
    IF heap[data].st = "live"
    THEN IF to_str(old_name).tag # "Ok" \/ to_str(new_name).tag # "Ok" THEN PanicOutcomes
         ELSE LET control == HandlerControl(heap[data].handler, "port_rename")
              IN {Returned(to_ffi(control),
                     <<[method |-> "port_rename", weak |-> WeakOf(data), port_id |-> port_id,
                        old_name |-> to_str(old_name).s,
                        new_name |-> to_str(new_name).s, ret |-> control]>>)}
    ELSE FreedOutcomes

port_connect(port_id_a, port_id_b, connect, data) ==
    IF heap[data].st = "live"
    THEN {Returned("void",
            <<[method |-> "ports_connected", weak |-> WeakOf(data), port_id_a |-> port_id_a,
               port_id_b |-> port_id_b, are_connected |-> c_int_to_bool(connect),
               ret |-> "unit"]>>)}
    ELSE FreedVoid

\* The graph_order trampoline with the handler's control dropped.
graph_order_ControlDropped(data) ==
    IF heap[data].st = "live"
    THEN LET control == HandlerControl(heap[data].handler, "graph_order")
         IN {Returned(0, <<[method |-> "graph_reorder", weak |-> WeakOf(data), ret |-> control]>>)}
    ELSE FreedOutcomes

graph_order(data) ==
    IF heap[data].st = "live"
    THEN LET control == HandlerControl(heap[data].handler, "graph_order")
         IN {Returned(to_ffi(control), <<[method |-> "graph_reorder", weak |-> WeakOf(data),
                                          ret |-> control]>>)}
    ELSE FreedOutcomes

\* The xrun trampoline calling the handler's graph_reorder method.
xrun_AsGraphReorder(data) ==
    IF heap[data].st = "live"
    THEN LET control == HandlerControl(heap[data].handler, "graph_order")
         IN {Returned(to_ffi(control), <<[method |-> "graph_reorder", weak |-> WeakOf(data),
                                          ret |-> control]>>)}
    ELSE FreedOutcomes

xrun(data) ==
    IF heap[data].st = "live"
    THEN LET control == HandlerControl(heap[data].handler, "xrun")
         IN {Returned(to_ffi(control), <<[method |-> "xrun", weak |-> WeakOf(data),
                                          ret |-> control]>>)}
    ELSE FreedOutcomes

\* The latency trampoline with every mode but the capture one taken for playback.
latency_OtherIsPlayback(mode, data) ==
    IF heap[data].st = "live"
    THEN IF mode = JackCaptureLatency
         THEN {Returned("void", <<[method |-> "latency", weak |-> WeakOf(data),
                                   mode |-> "Capture", ret |-> "unit"]>>)}
         ELSE {Returned("void", <<[method |-> "latency", weak |-> WeakOf(data),
                                   mode |-> "Playback", ret |-> "unit"]>>)}
    ELSE FreedVoid

latency(mode, data) ==
    IF heap[data].st = "live"
    THEN IF mode = JackCaptureLatency
         THEN {Returned("void", <<[method |-> "latency", weak |-> WeakOf(data),
                                   mode |-> "Capture", ret |-> "unit"]>>)}
         ELSE IF mode = JackPlaybackLatency
         THEN {Returned("void", <<[method |-> "latency", weak |-> WeakOf(data),
                                   mode |-> "Playback", ret |-> "unit"]>>)}
         ELSE PanicOutcomes
    ELSE FreedVoid

\* The trampolines of the other kinds, on a handler that keeps the default methods:
\* the outcomes [code, heap, ub, called] of one call ("void" where nothing is returned).
notification(kind, data) ==
    IF heap[data].st = "live"
    THEN {[code |-> IF kind \in VetoKinds THEN to_ffi("Continue") ELSE "void",
           heap |-> heap, ub |-> ub, called |-> TRUE]}
    ELSE {[code |-> IF kind \in VetoKinds THEN o.code ELSE "void",
           heap |-> o.heap, ub |-> o.ub, called |-> FALSE] : o \in FreedOutcomes}

\* The registration calls register_callbacks makes, in order: the kind, with data_ptr
\* as the context of each.
RegistrationCalls ==
    <<"thread_init", "shutdown", "process", "freewheel", "buffer_size", "sample_rate",
      "client_registration", "port_registration", "port_connect", "graph_order",
      "xrun", "latency">>

RegisteredKinds == {RegistrationCalls[i] : i \in 1..Len(RegistrationCalls)}

\* j::jack_set_..._callback and j::jack_on_info_shutdown: the engine binds the kind
\* to the context when it answers 0, and keeps what it had otherwise.
jack_set_callbacks(client, kinds, data_ptr, statuses) ==
    [cbs EXCEPT ![client] =
        [k \in CallbackKinds |->
            IF k \in kinds /\ statuses[k] = 0 THEN data_ptr ELSE cbs[client][k]]]

\* Box::into_raw(Box::new(..)): a fresh address.
NewAddr == CHOOSE a \in Addrs : heap[a].st = "unallocated" /\
                                 \A b \in Addrs : b < a => heap[b].st # "unallocated"

\* The address the client's latest register_callbacks returned (0: none).
LatestOf(client) ==
    IF \E a \in Addrs : heap[a].st # "unallocated" /\ heap[a].client = client
    THEN CHOOSE a \in Addrs :
            /\ heap[a].st # "unallocated" /\ heap[a].client = client
            /\ \A b \in Addrs :
                 (heap[b].st # "unallocated" /\ heap[b].client = client) => b <= a
    ELSE 0

\* register_callbacks which frees the HandlerState of the client's earlier
\* registration.
register_callbacks_FreesPrevious(handler, client, statuses) ==
    /\ ub # "crashed"
    /\ client \in open
    /\ \E a \in Addrs : heap[a].st = "unallocated"
    /\ LET handler_ptr == NewAddr
           previous == LatestOf(client)
       IN /\ heap' = [a \in Addrs |->
                         IF a = handler_ptr THEN HandlerState(handler, client)
                         ELSE IF a = previous /\ heap[a].st = "live"
                         THEN [heap[a] EXCEPT !.st = "freed", !.how = "by_register"]
                         ELSE heap[a]]
          /\ cbs' = jack_set_callbacks(client, RegisteredKinds, handler_ptr, statuses)
          /\ cret' = [op |-> "register_callbacks",
                      val |-> [tag |-> "Ok", ptr |-> handler_ptr]]
    /\ cleared' = cleared \ {client}
    /\ UNCHANGED <<stopped, plog, ub, portVars, extVars>>

register_callbacks(handler, client, statuses) ==
    /\ ub # "crashed"
    /\ client \in open
    /\ \E a \in Addrs : heap[a].st = "unallocated"
    /\ LET handler_ptr == NewAddr
       IN /\ heap' = [heap EXCEPT ![handler_ptr] = HandlerState(handler, client)]
          /\ cbs' = jack_set_callbacks(client, RegisteredKinds, handler_ptr, statuses)
          /\ cret' = [op |-> "register_callbacks",
                      val |-> [tag |-> "Ok", ptr |-> handler_ptr]]
    /\ cleared' = cleared \ {client}
    /\ UNCHANGED <<stopped, plog, ub, portVars, extVars>>

clear_callbacks(client) ==
    /\ ub # "crashed"
    /\ client \in open
    /\ cret' = [op |-> "clear_callbacks", val |-> Ok]
    /\ cleared' = cleared \cup {client}
    /\ UNCHANGED <<heap, cbs, stopped, plog, ub, portVars, extVars>>

\* The application frees a HandlerState after clear_callbacks returned Ok.
FreeAfterClear(a) ==
    /\ ub # "crashed"
    /\ heap[a].st = "live"
    /\ heap[a].client \in cleared
    /\ heap' = [heap EXCEPT ![a].st = "freed", ![a].how = "after_clear"]
    /\ UNCHANGED <<cbs, stopped, cleared, cret, plog, ub, portVars, extVars>>

\* The application frees a HandlerState after registering new callbacks with the
\* same client.
FreeAfterReregister(a) ==
    /\ ub # "crashed"
    /\ heap[a].st = "live"
    /\ LatestOf(heap[a].client) # a
    /\ heap' = [heap EXCEPT ![a].st = "freed", ![a].how = "after_reregister"]
    /\ UNCHANGED <<cbs, stopped, cleared, cret, plog, ub, portVars, extVars>>

\* The application frees a HandlerState after the client was closed.
FreeAfterClose(a) ==
    /\ ub # "crashed"
    /\ heap[a].st = "live"
    /\ heap[a].client \notin open
    /\ heap' = [heap EXCEPT ![a].st = "freed", ![a].how = "after_close"]
    /\ UNCHANGED <<cbs, stopped, cleared, cret, plog, ub, portVars, extVars>>

\* The engine runs one cycle: it calls the process trampoline with the registered
\* context, and stops calling it once it returned a non-zero code.
EngineProcess(client, n_frames) ==
    /\ ub # "crashed"
    /\ client \in open
    /\ cbs[client]["process"] # 0
    /\ client \notin stopped
    /\ Len(plog[cbs[client]["process"]]) <= MaxStopCycle
    /\ LET data == cbs[client]["process"]
       IN \E o \in process(n_frames, data) :
            /\ heap' = o.heap
            /\ ub' = o.ub
            /\ plog' = IF o.called /\ heap[data].handler.type = "ProcessHandler"
                       THEN [plog EXCEPT ![data] = Append(@, o.code)]
                       ELSE plog
            /\ stopped' = IF o.code # 0 THEN stopped \cup {client} ELSE stopped
    /\ UNCHANGED <<cbs, cleared, cret, portVars, extVars>>

\* The engine delivers a notification of another kind to its registered trampoline.
EngineNotify(client, kind) ==
    /\ ub # "crashed"
    /\ client \in open
    /\ kind # "process"
    /\ cbs[client][kind] # 0
    /\ \E o \in notification(kind, cbs[client][kind]) :
         /\ heap' = o.heap
         /\ ub' = o.ub
    /\ UNCHANGED <<cbs, stopped, cleared, cret, plog, portVars, extVars>>

\* The method of JackHandler the trampoline of a kind calls.
MethodOf(kind) ==
    CASE kind = "thread_init" -> "thread_init"
      [] kind = "port_connect" -> "ports_connected"
      [] kind = "graph_order" -> "graph_reorder"
      [] OTHER -> kind

\* Whether the raw arguments of a call convert to the arguments of the handler's
\* method: the names are valid text and the latency mode is one of the two.
ArgumentsConvert(call) ==
    /\ call.kind = "client_registration" => Utf8Valid(call.name)
    /\ call.kind = "port_rename" => (Utf8Valid(call.old_name) /\ Utf8Valid(call.new_name))
    /\ call.kind = "latency" => call.mode \in {JackCaptureLatency, JackPlaybackLatency}

\* The calls of a kind the engine makes, with their raw arguments.
CallsOf(kind) ==
    CASE kind = "shutdown" ->
            {[kind |-> kind, code |-> c, reason |-> r] : c \in ShutdownCodes, r \in ByteStrings}
      [] kind \in {"process", "buffer_size", "sample_rate"} ->
            {[kind |-> kind, n_frames |-> f] : f \in Frames}
      [] kind = "freewheel" -> {[kind |-> kind, starting |-> x] : x \in CInts}
      [] kind = "client_registration" ->
            {[kind |-> kind, name |-> b, register |-> x] : b \in ByteStrings, x \in CInts}
      [] kind = "port_registration" ->
            {[kind |-> kind, port_id |-> i, register |-> x] : i \in PortIds, x \in CInts}
      [] kind = "port_rename" ->
            {[kind |-> kind, port_id |-> i, old_name |-> a, new_name |-> b] :
                i \in PortIds, a \in ByteStrings, b \in ByteStrings}
      [] kind = "port_connect" ->
            {[kind |-> kind, port_id_a |-> a, port_id_b |-> b, connect |-> x] :
                a \in PortIds, b \in PortIds, x \in CInts}
      [] kind = "latency" ->
            {[kind |-> kind, mode |-> m] : m \in {JackCaptureLatency, JackPlaybackLatency}}
      [] OTHER -> {[kind |-> kind]}

\* The trampoline registered for the kind of the call, applied to its arguments.
Trampoline(call, data) ==
    CASE call.kind = "thread_init" -> thread_init_callback(data)
      [] call.kind = "shutdown" -> shutdown(call.code, call.reason, data)
      [] call.kind = "process" -> process(call.n_frames, data)
      [] call.kind = "freewheel" -> freewheel(call.starting, data)
      [] call.kind = "buffer_size" -> buffer_size(call.n_frames, data)
      [] call.kind = "sample_rate" -> sample_rate(call.n_frames, data)
      [] call.kind = "client_registration" ->
            client_registration(call.name, call.register, data)
      [] call.kind = "port_registration" ->
            port_registration(call.port_id, call.register, data)
      [] call.kind = "port_rename" ->
            port_rename(call.port_id, call.old_name, call.new_name, data)
      [] call.kind = "port_connect" ->
            port_connect(call.port_id_a, call.port_id_b, call.connect, data)
      [] call.kind = "graph_order" -> graph_order(data)
      [] call.kind = "xrun" -> xrun(data)
      [] call.kind = "latency" -> latency(call.mode, data)

\* One call of a trampoline with a context, and what is seen of it.
Enter(client, call, data) ==
    \E o \in Trampoline(call, data) :
        /\ heap' = o.heap
        /\ ub' = o.ub
        /\ hcall' = [call |-> call, data |-> data, client |-> client, calls |-> o.calls,
                     code |-> o.code]
        /\ stopped' = IF call.kind = "process" /\ o.called /\ o.code # 0
                      THEN stopped \cup {client}
                      ELSE stopped

\* The engine makes a call of a kind on the trampoline registered for it, with the
\* context registered with it; it makes no process call once one returned non-zero.
EngineCall(client, call) ==
    /\ ub # "crashed"
    /\ client \in open
    /\ cbs[client][call.kind] # 0
    /\ call.kind = "process" => client \notin stopped
    /\ Enter(client, call, cbs[client][call.kind])
    /\ UNCHANGED <<cbs, cleared, cret, plog, portVars, inflight, clVars>>

\* The latency trampoline is called with a mode that is neither of the two.
OtherLatencyCall(client, mode) ==
    /\ mode \in OtherLatencyModes
    /\ EngineCall(client, [kind |-> "latency", mode |-> mode])

\* The engine recomputes the latencies: it calls the latency trampoline for the
\* capture direction and then for the playback direction; hcall holds the calls
\* the two made on the handler.
EngineLatencyRecompute(client) ==
    /\ ub # "crashed"
    /\ client \in open
    /\ cbs[client]["latency"] # 0
    /\ LET data == cbs[client]["latency"]
       IN \E o1 \in latency(JackCaptureLatency, data), o2 \in latency(JackPlaybackLatency, data) :
            /\ heap' = IF o1.ub = "crashed" THEN o1.heap ELSE o2.heap
            /\ ub' = IF o1.ub = "crashed" THEN o1.ub ELSE o2.ub
            /\ hcall' = [call |-> [kind |-> "latency_recompute"], data |-> data,
                         client |-> client,
                         calls |-> IF o1.ub = "crashed" THEN o1.calls
                                   ELSE o1.calls \o o2.calls,
                         code |-> "void"]
    /\ UNCHANGED <<cbs, stopped, cleared, cret, plog, portVars, inflight, clVars>>

\* The port_rename trampoline is called with the context of the client's latest
\* registration.
PortRenameCall(client, call) ==
    /\ ub # "crashed"
    /\ client \in open
    /\ call.kind = "port_rename"
    /\ LatestOf(client) # 0
    /\ Enter(client, call, LatestOf(client))
    /\ UNCHANGED <<cbs, cleared, cret, plog, portVars, inflight, clVars>>

\* The calls the engine makes where its threads are followed.
ThreadCalls ==
    {[kind |-> "process", n_frames |-> f] : f \in Frames}
        \cup {[kind |-> "xrun"], [kind |-> "graph_order"], [kind |-> "thread_init"],
              [kind |-> "shutdown", code |-> 1, reason |-> <<97>>],
              [kind |-> "client_registration", name |-> <<97>>, register |-> 1]}

\* A thread of the engine enters the trampoline registered for a kind.  The process
\* callback is called on the process thread alone, so never twice at once, and no
\* more once it returned non-zero; the other kinds are called on either thread.
BeginCall(t, client, call) ==
    /\ ub # "crashed"
    /\ client \in open
    /\ inflight[t] = NoFlight
    /\ call.kind = "process" => (t = "process" /\ client \notin stopped)
    /\ cbs[client][call.kind] # 0
    /\ inflight' = [inflight EXCEPT ![t] =
                       [call |-> call, data |-> cbs[client][call.kind], client |-> client]]
    /\ UNCHANGED <<portVars, cbVars, hcall, clVars>>

\* The trampoline a thread is in returns.
EndCall(t) ==
    /\ ub # "crashed"
    /\ inflight[t] # NoFlight
    /\ Enter(inflight[t].client, inflight[t].call, inflight[t].data)
    /\ plog' = IF /\ inflight[t].call.kind = "process"
                  /\ hcall'.calls # <<>>
                  /\ heap[inflight[t].data].handler.type = "ProcessHandler"
               THEN [plog EXCEPT ![inflight[t].data] = Append(@, hcall'.code)]
               ELSE plog
    /\ inflight' = [inflight EXCEPT ![t] = NoFlight]
    /\ UNCHANGED <<cbs, cleared, cret, portVars, clVars>>

\* ProcessScope::cycle_times: unimplemented!().
cycle_times(scope) == Panic

\* The closure of a ProcessHandler asks the scope of the call in flight for the cycle
\* times, which the engine can supply or not; the panic leaves the closure and the
\* process trampoline, and the call does not return.
CallCycleTimes(t, avail) ==
    /\ ub # "crashed"
    /\ inflight[t].call.kind = "process"
    /\ heap[inflight[t].data].st = "live"
    /\ CallsClosure(heap[inflight[t].data].handler, "process")
    /\ LET scope == ProcessScope_from_raw(inflight[t].call.n_frames,
                                          as_ptr(inflight[t].client))
       IN /\ ret' = [op |-> "cycle_times", val |-> cycle_times(scope), avail |-> avail]
          /\ IF cycle_times(scope) = Panic
             THEN /\ ub' \in {"crashed", "unwound"}
                  /\ inflight' = [inflight EXCEPT ![t] = NoFlight]
             ELSE UNCHANGED <<ub, inflight>>
    /\ UNCHANGED <<ports, conns, active, links, scen, heap, cbs, stopped, cleared, cret,
                   plog, hcall, clVars>>

(***************************************************************************)
(* The specification of the port and connection calls.                     *)
(***************************************************************************)

InitPorts ==
    /\ ports = {}
    /\ conns = {}
    /\ active = {}
    /\ ret = [op |-> "open", val |-> Ok]
    /\ links = {}
    /\ scen = <<>>

InitCallbacks ==
    /\ heap = [a \in Addrs |-> Unallocated]
    /\ cbs = [c \in Clients |-> [k \in CallbackKinds |-> 0]]
    /\ stopped = {}
    /\ cleared = {}
    /\ cret = [op |-> "open", val |-> Ok]
    /\ plog = [a \in Addrs |-> <<>>]
    /\ ub = "none"

InitExt ==
    /\ hcall = NoCall
    /\ inflight = [t \in Threads |-> NoFlight]
    /\ bufsize = 64
    /\ open = Clients
    /\ owners = Clients
    /\ weaks = [c \in Clients |-> 0]

Init == InitPorts /\ InitCallbacks /\ InitExt

RegisterPort == \E i \in RegInputs : register_port(i[1], i[2], i[3])

ConnectPorts ==
    \E c \in Callers, s \in ConnNames, d \in ConnNames : connect_ports_by_name(c, s, d)

DisconnectPorts ==
    \E c \in Callers, s \in ConnNames, d \in ConnNames : disconnect_ports_by_name(c, s, d)

ActivateClient == \E c \in Clients : Activate(c)

NextPorts == RegisterPort \/ ConnectPorts \/ DisconnectPorts \/ ActivateClient

SpecPorts == Init /\ [][NextPorts]_vars

(***************************************************************************)
(* The specification of the callback bridge.                               *)
(***************************************************************************)

RegisterCallbacks ==
    \E h \in LifecycleHandlers, c \in CbClients, sv \in StatusVectors :
        register_callbacks(h, c, sv)

ClearCallbacks == \E c \in CbClients : clear_callbacks(c)

FreeHandler == \E a \in Addrs : FreeAfterClear(a) \/ FreeAfterReregister(a)

Cycle == \E c \in CbClients, f \in Frames : EngineProcess(c, f)

Notify == \E c \in CbClients, k \in CallbackKinds : EngineNotify(c, k)

NextCallbacks == RegisterCallbacks \/ ClearCallbacks \/ FreeHandler \/ Cycle \/ Notify

SpecCallbacks == Init /\ [][NextCallbacks]_vars

(***************************************************************************)
(* The specification of the life of the HandlerState: the callback bridge  *)
(* as above, with the client closed at some point and the application      *)
(* freeing what it registered after that as well.                          *)
(***************************************************************************)

FreeClosed == \E a \in Addrs : FreeAfterClose(a)

CloseClient == \E c \in CbClients : DropClient(c)

NextLifetime ==
    \/ RegisterCallbacks \/ ClearCallbacks \/ FreeHandler \/ FreeClosed
    \/ Cycle \/ Notify \/ CloseClient

SpecLifetime == Init /\ [][NextLifetime]_vars

(***************************************************************************)
(* The specification of the process cycles: handlers that stop on any      *)
(* cycle are registered and the engine runs its cycles; no HandlerState    *)
(* is freed.                                                               *)
(***************************************************************************)

RegisterStopper ==
    \E h \in HandlerInputs, c \in CbClients, sv \in StatusVectors :
        register_callbacks(h, c, sv)

NextCycles == RegisterStopper \/ Cycle \/ Notify

SpecCycles == Init /\ [][NextCycles]_vars

(***************************************************************************)
(* The specification of the trampolines: handlers are registered, and the  *)
(* engine calls every kind with the arguments it may pass.                 *)
(***************************************************************************)

RegisterHandler ==
    \E h \in TrampolineHandlers, c \in CbClients :
        register_callbacks(h, c, [k \in CallbackKinds |-> 0])

Deliver ==
    \E c \in CbClients, k \in RegisteredKinds : \E call \in CallsOf(k) : EngineCall(c, call)

DeliverPortRename ==
    \E c \in CbClients : \E call \in CallsOf("port_rename") : PortRenameCall(c, call)

DeliverOtherLatency ==
    \E c \in CbClients, m \in OtherLatencyModes : OtherLatencyCall(c, m)

LatencyRecompute == \E c \in CbClients : EngineLatencyRecompute(c)

NextTrampolines ==
    \/ RegisterHandler \/ Deliver \/ DeliverPortRename
    \/ DeliverOtherLatency \/ LatencyRecompute

SpecTrampolines == Init /\ [][NextTrampolines]_vars

(***************************************************************************)
(* The specification of the client handles: one client registers two       *)
(* ports and connects them, changes the buffer size, asks for monitoring   *)
(* and queries the ports, through its Client or through WeakClient values. *)
(***************************************************************************)

\* The register_port calls of this client.
HandleRegInputs == {<<"app", "o2", AudioOutSpec>>, <<"app", "in", MidiInSpec>>,
                    <<"app", "in", AudioInSpec>>}

\* The names it connects and disconnects.
HandleConnNames == {"app:o2", "app:in"}

HandleRegister == \E i \in HandleRegInputs : register_port(i[1], i[2], i[3])

HandleActivate == \E c \in Callers : Activate(c)

HandleConnect ==
    \E c \in Callers, s \in HandleConnNames, d \in HandleConnNames :
        connect_ports_by_name(c, s, d)

HandleDisconnect ==
    \E c \in Callers, s \in HandleConnNames, d \in HandleConnNames :
        disconnect_ports_by_name(c, s, d)

SetBufferSize ==
    \E c \in Callers, via \in Handles, n \in BufferSizes : set_buffer_size(c, via, n)

RequestMonitor ==
    \E c \in Callers, via \in Handles, n \in MonitorNames, e \in BOOLEAN :
        request_monitor_by_name(c, via, n, e)

QueryPorts ==
    \E c \in Callers, via \in Handles, pn \in NamePatterns, tn \in TypePatterns,
       f \in FlagFilters :
        JackClient_ports(c, via, pn, tn, f)

NewWeak == \E c \in Callers : WeakClient_from_raw(c)

WeakDropped == \E c \in Callers : DropWeak(c)

ClientDropped == \E c \in Callers : DropClient(c)

NextHandles ==
    \/ HandleRegister \/ HandleActivate \/ HandleConnect \/ HandleDisconnect
    \/ SetBufferSize \/ RequestMonitor \/ QueryPorts
    \/ NewWeak \/ WeakDropped \/ ClientDropped

SpecHandles == Init /\ [][NextHandles]_vars

(***************************************************************************)
(* The specification of the engine's threads: a trampoline call begins on  *)
(* a thread and ends later, while the other thread makes its own calls.    *)
(***************************************************************************)

Begin ==
    \E t \in Threads, c \in CbClients : \E call \in ThreadCalls : BeginCall(t, c, call)

End == \E t \in Threads : EndCall(t)

AskCycleTimes == \E t \in Threads, avail \in BOOLEAN : CallCycleTimes(t, avail)

NextThreads == RegisterHandler \/ Begin \/ End \/ AskCycleTimes

SpecThreads == Init /\ [][NextThreads]_vars

(***************************************************************************)
(* The specification of two clients: each registers its callbacks, and the *)
(* engine calls the trampolines of either with the context it registered.  *)
(***************************************************************************)

\* The handlers the two clients register.
IdentityHandlers == {DefaultHandler, StopAt(1)}

\* One call of each registered kind.
IdentityCalls ==
    {CHOOSE call \in CallsOf(k) : ArgumentsConvert(call) : k \in RegisteredKinds}

RegisterEither ==
    \E h \in IdentityHandlers, c \in Clients :
        register_callbacks(h, c, [k \in CallbackKinds |-> 0])

DeliverEither == \E c \in Clients : \E call \in IdentityCalls : EngineCall(c, call)

NextIdentity == RegisterEither \/ DeliverEither

SpecIdentity == Init /\ [][NextIdentity]_vars

(***************************************************************************)
(* Claims about the port and connection calls.                             *)
(***************************************************************************)

\* C1: connect_ports_by_name on a pair of ports that satisfies the four preconditions
\* and is connected returns PortAlreadyConnected(source, destination), not
\* PortConnectionError and not Ok, and leaves the connections as they were.
C1_AlreadyConnected ==
    [][\A c \in Callers, s \in ConnNames, d \in ConnNames :
          (/\ ConnectPreconditions(s, d)
           /\ <<s, d>> \in conns
           /\ connect_ports_by_name(c, s, d))
          => (ret'.val = PortAlreadyConnected(s, d) /\ conns' = conns)]_vars

\* A connect of a connected pair has answered PortAlreadyConnected.
C1_Witness ==
    /\ ret.op = "connect"
    /\ ret.val.tag = "PortAlreadyConnected"
    /\ <<ret.val.a, ret.val.b>> \in conns

\* C2: the links for which connect returned Ok and disconnect has not returned Ok
\* since are exactly the connections the engine holds: an Ok connect adds that one
\* link, an Ok disconnect removes that one link, every other call and every other
\* link is left alone, and nothing but the engine's own set answers a query.
C2_LinksAreEngineConnections == links = conns

\* A disconnect has returned Ok while another link stays connected.
C2_Witness ==
    /\ ret.op = "disconnect"
    /\ ret.val = Ok
    /\ Cardinality(conns) >= 1

ScenExpected == <<Ok, PortAlreadyConnected(ScenSrc, ScenDst), Ok, PortDisconnectionError>>

\* C3: connect, connect, disconnect, disconnect on app:out and app:in return Ok,
\* PortAlreadyConnected, Ok, PortDisconnectionError in that order; and
\* disconnect_ports_by_name on two ports that are not connected returns
\* PortDisconnectionError and changes no connection.
C3_ScenarioAndDisconnect ==
    [][/\ \A i \in 1..Len(scen') : scen'[i] = ScenExpected[i]
       /\ \A c \in Callers, s \in ConnNames, d \in ConnNames :
             (/\ IsPort(s) /\ IsPort(d)
              /\ <<s, d>> \notin conns
              /\ disconnect_ports_by_name(c, s, d))
             => (ret'.val = PortDisconnectionError /\ conns' = conns)]_vars

\* The scenario has run to its fourth call.
C3_Witness == Len(scen) = 4 /\ ret.op = "disconnect" /\ ret.val = PortDisconnectionError

\* C4: a connect of two ports that violates a precondition (types differ, source
\* is no output, destination is no input, or an owner is not active) returns
\* PortConnectionError with the two names, does not panic, and adds no link.
C4_PreconditionViolated ==
    [][\A c \in Callers, s \in ConnNames, d \in ConnNames :
          (/\ IsPort(s) /\ IsPort(d)
           /\ ~ConnectPreconditions(s, d)
           /\ connect_ports_by_name(c, s, d))
          => (ret'.val = PortConnectionError(s, d) /\ conns' = conns)]_vars

\* A connect from an output port to an input port of another type has failed.
C4_Witness ==
    /\ ret.op = "connect"
    /\ ret.val.tag = "PortConnectionError"
    /\ IsPort(ret.val.a) /\ IsPort(ret.val.b)
    /\ ret.val.a # ret.val.b
    /\ "IS_OUTPUT" \in PortNamed(ret.val.a).spec.flags
    /\ "IS_INPUT" \in PortNamed(ret.val.b).spec.flags
    /\ PortNamed(ret.val.a).spec.type # PortNamed(ret.val.b).spec.type
    /\ {PortNamed(ret.val.a).client, PortNamed(ret.val.b).client} \subseteq active

\* C5: register_port(name, spec) returns PortRegistrationError(name) and registers
\* no port when the full name is longer than the maximum or the client has a port
\* of that short name; otherwise it returns an owned port and the client then has
\* exactly one port of that short name.
C5_RegisterPort ==
    [][\A i \in RegInputs :
          register_port(i[1], i[2], i[3])
          => IF \/ Len(FullName(i[1], i[2])) > PortNameSize
                \/ \E p \in ports : p.client = i[1] /\ p.short = i[2]
             THEN ret'.val = PortRegistrationError(i[2]) /\ ports' = ports
             ELSE /\ ret'.val.tag = "OkPort"
                  /\ Cardinality({p \in ports' : p.client = i[1] /\ p.short = i[2]}) = 1]_vars

(***************************************************************************)
(* Claims about the callback bridge.                                       *)
(***************************************************************************)

\* The engine enters the client's trampoline of the kind.
Enters(c, k) == EngineNotify(c, k) \/ (k = "process" /\ \E f \in Frames : EngineProcess(c, f))

\* C6: when the application frees a HandlerState only after clear_callbacks returned
\* Ok, no trampoline is entered with a freed HandlerState as its context.
C6_NoFreedContext ==
    [][\A c \in CbClients, k \in CallbackKinds :
          (/\ cbs[c][k] # 0
           /\ heap[cbs[c][k]].st = "freed"
           /\ heap[cbs[c][k]].how = "after_clear")
          => ~Enters(c, k)]_vars

\* C7: after clear_callbacks(client) returned Ok, and until callbacks are registered
\* again, the engine enters no trampoline of any kind for that client.
C7_NoCallbackAfterClear ==
    [][\A c \in CbClients, k \in CallbackKinds : c \in cleared => ~Enters(c, k)]_vars

\* C8: a register_callbacks call that the engine accepts binds every one of the
\* thirteen callback kinds to the address of the HandlerState it allocated.
C8_ThirteenKinds ==
    [][\A h \in HandlerInputs, c \in CbClients, sv \in StatusVectors :
          (register_callbacks(h, c, sv) /\ \A k \in CallbackKinds : sv[k] = 0)
          => \A k \in CallbackKinds : cbs'[c][k] = cret'.val.ptr]_vars

\* C9: register_callbacks returns Ok only when every registration call answered 0,
\* and returns Err(CallbackRegistrationError) when one of them answered non-zero.
C9_StatusReported ==
    [][\A h \in HandlerInputs, c \in CbClients, sv \in StatusVectors :
          register_callbacks(h, c, sv)
          => /\ cret'.val.tag = "Ok" => \A k \in RegisteredKinds : sv[k] = 0
             /\ (\E k \in RegisteredKinds : sv[k] # 0) => cret'.val = CallbackRegistrationError]_vars

\* C10: for a live handler whose process returns Stop on call k and Continue before,
\* the process trampoline returned 0 on the calls 1..k-1 and a non-zero code on call
\* k, and the engine made no call after call k.
C10_StopOnCycleK ==
    \A a \in Addrs :
        (heap[a].st = "live" /\ heap[a].handler.type = "ProcessHandler")
        => /\ Len(plog[a]) <= heap[a].handler.k
           /\ \A i \in 1..Len(plog[a]) :
                 IF i < heap[a].handler.k THEN plog[a][i] = 0 ELSE plog[a][i] # 0

\* A handler that stops on cycle 5 has run its fifth cycle and the engine has stopped.
C10_Witness ==
    \E a \in Addrs :
        /\ heap[a].st = "live"
        /\ heap[a].handler = [type |-> "ProcessHandler", k |-> 5, n |-> 5]
        /\ plog[a] = <<0, 0, 0, 0, -1>>
        /\ heap[a].client \in stopped

(***************************************************************************)
(* Claims about the trampolines and their arguments.                       *)
(***************************************************************************)

\* C11: on every process call the handler is called once with a ProcessScope made
\* for that call, whose n_frames() is the frame count the engine passed for that
\* cycle, whatever the earlier cycles were passed and whatever callbacks ran since.
C11_ScopeFrames ==
    (hcall.call.kind = "process" /\ hcall.calls # <<>>)
    => /\ Len(hcall.calls) = 1
       /\ hcall.calls[1].method = "process"
       /\ hcall.calls[1].n_frames = hcall.call.n_frames

\* The second cycle of a counting handler was passed 128 frames and saw 128 frames.
C11_Witness ==
    /\ hcall.call.kind = "process"
    /\ hcall.call.n_frames = 128
    /\ hcall.calls # <<>>
    /\ hcall.calls[1].n_frames = 128
    /\ heap[hcall.data].handler.type = "ProcessHandler"
    /\ heap[hcall.data].handler.n = 2

\* C12: the trampoline of a veto-capable kind returns 0 exactly when the handler's
\* method returned Continue and a non-zero code exactly when it returned Stop; the
\* trampolines of the other kinds return nothing to the engine.
C12_VetoCodes ==
    /\ (hcall.call.kind \in VetoKinds /\ hcall.calls # <<>>)
       => /\ hcall.calls[1].ret \in {"Continue", "Stop"}
          /\ (hcall.code = 0) <=> (hcall.calls[1].ret = "Continue")
          /\ (hcall.code # 0) <=> (hcall.calls[1].ret = "Stop")
    /\ hcall.call.kind \in (CallbackKinds \ VetoKinds) => hcall.code \in {"void", "panic"}

\* The graph_order trampoline has returned a non-zero code for a handler that
\* returned Stop.
C12_Witness ==
    /\ hcall.call.kind = "graph_order"
    /\ hcall.calls # <<>>
    /\ hcall.calls[1].ret = "Stop"
    /\ hcall.code = -1

\* C13: the shutdown trampoline, for every status code and every reason, calls the
\* handler's shutdown method exactly once and returns: with the reason's text when
\* its bytes are valid text, with "Failed to interpret error." when they are not.
C13_ShutdownNeverFails ==
    hcall.call.kind = "shutdown"
    => /\ hcall.code = "void"
       /\ Len(hcall.calls) = 1
       /\ hcall.calls[1].method = "shutdown"
       /\ hcall.calls[1].reason = IF Utf8Valid(hcall.call.reason)
                                  THEN hcall.call.reason
                                  ELSE FailedToInterpret

\* The shutdown method has been called with the placeholder for a reason that is
\* not valid text.
C13_Witness ==
    /\ hcall.call.kind = "shutdown"
    /\ hcall.call.reason = <<97, 195>>
    /\ Len(hcall.calls) = 1
    /\ hcall.calls[1].reason = FailedToInterpret

\* C14: when a name passed to the client_registration or the port_rename trampoline
\* is not valid text, the handler's method is not called, with no name at all, and
\* the trampoline does not return normally: it ends in a panic.
C14_InvalidNameFails ==
    /\ (hcall.call.kind = "client_registration" /\ ~Utf8Valid(hcall.call.name))
       => (hcall.calls = <<>> /\ hcall.code = "panic" /\ ub \in {"crashed", "unwound"})
    /\ (/\ hcall.call.kind = "port_rename"
        /\ ~(Utf8Valid(hcall.call.old_name) /\ Utf8Valid(hcall.call.new_name)))
       => (hcall.calls = <<>> /\ hcall.code = "panic" /\ ub \in {"crashed", "unwound"})

\* The client_registration trampoline has been passed a name cut inside a two-byte
\* sequence.
C14_Witness ==
    /\ hcall.call.kind = "client_registration"
    /\ hcall.call.name = <<97, 195>>
    /\ hcall.code = "panic"

C15_OwnErrorKinds ==
    /\ (ret.op \in {"set_buffer_size", "disconnect", "request_monitor"} /\ ret.val # Panic)
       => /\ (ret.val = Ok) <=> (ret.res = 0)
          /\ ret.res # 0
             => ret.val = (CASE ret.op = "set_buffer_size" -> SetBufferSizeError
                             [] ret.op = "disconnect" -> PortDisconnectionError
                             [] ret.op = "request_monitor" -> PortMonitorError)
    /\ Cardinality({SetBufferSizeError.tag, PortDisconnectionError.tag, PortMonitorError.tag,
                    PortConnectionError("", "").tag, PortAlreadyConnected("", "").tag}) = 5

\* set_buffer_size has failed on the status that means an existing connection to
\* connect_ports_by_name.
C15_Witness ==
    /\ ret.op = "set_buffer_size"
    /\ ret.res = EEXIST
    /\ ret.val = SetBufferSizeError

\* C17: whatever WeakClient values have been made, used and dropped, the connection
\* of a client is open exactly when its owning Client handle has not been dropped.
C17_WeakNeverCloses == \A c \in Clients : c \in open <=> c \in owners

\* A call has been made through a WeakClient, every WeakClient has been dropped
\* since, and the connection is open.
C17_Witness ==
    /\ ret.op = "ports"
    /\ ret.via = "weak"
    /\ weaks["app"] = 0
    /\ "app" \in open

\* C18: ports with no name pattern, no type pattern and empty flags changes no state
\* of the engine and returns the names of all the ports the engine holds, whatever
\* was called before; None and the empty string select the same set.
C18_PortsPureQuery ==
    [][\A c \in Callers, via \in Handles, pn \in {None, Some("")}, tn \in {None, Some("")} :
          JackClient_ports(c, via, pn, tn, {})
          => /\ ret'.val = {p.name : p \in ports}
             /\ UNCHANGED <<ports, conns, active, bufsize, open>>]_vars

\* ports(None, None, empty flags) has returned the two ports of the client.
C18_Witness ==
    /\ ret.op = "ports"
    /\ "args" \in DOMAIN ret
    /\ ret.args = <<None, None, {}>>
    /\ ret.val = {"app:o2", "app:in"}

(***************************************************************************)
(* Claims about the process scope and the threads.                         *)
(***************************************************************************)

\* C16: ProcessScope::cycle_times does not crash: it returns the CycleTimes when the
\* engine supplies the timing and Err(TimeError) when the engine cannot.
C16_CycleTimesRecoverable ==
    ret.op = "cycle_times"
    => /\ ret.val # Panic
       /\ ret.avail => ret.val.tag = "CycleTimes"
       /\ ~ret.avail => ret.val = TimeError

\* The threads on which the closure wrapped by the handler at an address is running.
ClosureThreads(a) ==
    {t \in Threads : /\ inflight[t] # NoFlight
                     /\ inflight[t].data = a
                     /\ CallsClosure(heap[a].handler, inflight[t].call.kind)}

\* C20: with process calls of one client never overlapping, the closure of a
\* ProcessHandler runs on at most one thread at a time and only inside a process
\* call, also while other notifications are in flight on the other thread; every
\* process call that returned ran the closure once and returned its result.
C20_ClosureExclusive ==
    /\ \A a \in Addrs :
          heap[a].st = "live"
          => /\ Cardinality(ClosureThreads(a)) <= 1
             /\ \A t \in Threads :
                   (inflight[t].data = a /\ inflight[t].call.kind # "process")
                   => t \notin ClosureThreads(a)
             /\ heap[a].handler.type = "ProcessHandler"
                => heap[a].handler.n = Len(plog[a])
    /\ (hcall.call.kind = "process" /\ hcall.calls # <<>>)
       => (Len(hcall.calls) = 1 /\ hcall.code = to_ffi(hcall.calls[1].ret))

\* A process call of a ProcessHandler is in flight while a shutdown call with the
\* same HandlerState is in flight on the other thread, after a first process call.
C20_Witness ==
    /\ inflight["process"].call.kind = "process"
    /\ inflight["notify"].call.kind = "shutdown"
    /\ inflight["process"].data = inflight["notify"].data
    /\ heap[inflight["process"].data].handler.type = "ProcessHandler"
    /\ heap[inflight["process"].data].handler.n = 1

(***************************************************************************)
(* Claims about the dispatch of the trampolines and the HandlerState.      *)
(***************************************************************************)

\* A step leaves every live HandlerState in place with its client and its handler;
\* the one change is the closure of a ProcessHandler counting its own call.
HandlerStateKept ==
    \A a \in Addrs :
        heap[a].st = "live"
        => /\ heap'[a].st = "live"
           /\ heap'[a].client = heap[a].client
           /\ \/ heap'[a].handler = heap[a].handler
              \/ /\ hcall'.data = a
                 /\ CallsClosure(heap[a].handler, hcall'.call.kind)
                 /\ heap'[a].handler = [heap[a].handler EXCEPT !.n = @ + 1]

\* C21 as stated: every call of a registered trampoline results in exactly one call
\* of the handler's method of the same kind and in no other call, and leaves the
\* stored (handler, weak client) pair as it was.
C21_OneCallPerInvocation ==
    [][/\ hcall'.call.kind \in RegisteredKinds
          => /\ Len(hcall'.calls) = 1
             /\ hcall'.calls[1].method = MethodOf(hcall'.call.kind)
       /\ HandlerStateKept]_vars

\* C21 as amended: a call of a registered trampoline whose raw arguments convert
\* results in exactly one call of the handler's method of the same kind and in no
\* other call; a call whose arguments do not convert results in no call of any
\* method; either way the stored (handler, weak client) pair is left as it was.
C21_OneCallWhenConverted ==
    [][/\ hcall'.call.kind \in RegisteredKinds
          => IF ArgumentsConvert(hcall'.call)
             THEN /\ Len(hcall'.calls) = 1
                  /\ hcall'.calls[1].method = MethodOf(hcall'.call.kind)
             ELSE hcall'.calls = <<>>
       /\ HandlerStateKept]_vars

\* The xrun trampoline has called the xrun method of a handler that vetoes it.
C21_Witness ==
    /\ hcall.call.kind = "xrun"
    /\ Len(hcall.calls) = 1
    /\ hcall.calls[1].method = "xrun"
    /\ hcall.calls[1].ret = "Stop"

\* C22: the WeakClient a trampoline passes to the handler, and the client pointer of
\* the ProcessScope passed to process, are the native connection that was given to
\* the register_callbacks call which made the context, the one the engine delivers
\* the callback for.
C22_WeakIsRegisteredClient ==
    \A i \in 1..Len(hcall.calls) :
        /\ "weak" \in DOMAIN hcall.calls[i] => as_ptr(hcall.calls[i].weak) = hcall.client
        /\ "client_ptr" \in DOMAIN hcall.calls[i] => hcall.calls[i].client_ptr = hcall.client

\* Both clients have registered callbacks, and the process method of the second has
\* been called with its own connection.
C22_Witness ==
    /\ hcall.client = "fx"
    /\ hcall.call.kind = "process"
    /\ Len(hcall.calls) = 1
    /\ hcall.calls[1].weak = "fx"
    /\ hcall.calls[1].client_ptr = "fx"
    /\ \E a \in Addrs : heap[a].st = "live" /\ heap[a].client = "app"

\* C23: the flag the freewheel, client_registration, port_registration and
\* port_connect trampolines pass to the handler is false when the native integer is
\* 0 and true for every other value, negative ones too; port ids and frame counts
\* reach the handler as the engine passed them.
C23_FlagsAndIds ==
    hcall.calls # <<>>
    => LET c == hcall.call
           m == hcall.calls[1]
           Flag(x) == IF x = 0 THEN FALSE ELSE TRUE
       IN /\ c.kind = "freewheel" => m.is_freewheel_enabled = Flag(c.starting)
          /\ c.kind = "client_registration" => m.is_registered = Flag(c.register)
          /\ c.kind = "port_registration"
             => (m.is_registered = Flag(c.register) /\ m.port_id = c.port_id)
          /\ c.kind = "port_connect"
             => /\ m.are_connected = Flag(c.connect)
                /\ m.port_id_a = c.port_id_a
                /\ m.port_id_b = c.port_id_b
          /\ c.kind = "port_rename" => m.port_id = c.port_id
          /\ c.kind = "process" => m.n_frames = c.n_frames
          /\ c.kind = "buffer_size" => m.size = c.n_frames
          /\ c.kind = "sample_rate" => m.srate = c.n_frames

\* The port_connect trampoline has been passed -1 for two different ports and the
\* handler was told they are connected.
C23_Witness ==
    /\ hcall.call.kind = "port_connect"
    /\ hcall.call.connect = -1
    /\ hcall.call.port_id_a = 1
    /\ hcall.call.port_id_b = 2
    /\ Len(hcall.calls) = 1
    /\ hcall.calls[1].are_connected = TRUE
    /\ hcall.calls[1].port_id_a = 1
    /\ hcall.calls[1].port_id_b = 2

\* C24: the latency trampoline calls the handler's latency method with Capture when
\* the native mode is the capture mode and with Playback when it is the playback
\* mode, so that a recompute, delivered as one capture and one playback call,
\* reaches the handler as one Capture call and one Playback call; with any other
\* mode the handler is not called.
C24_LatencyModes ==
    /\ hcall.call.kind = "latency"
       => IF hcall.call.mode \in {JackCaptureLatency, JackPlaybackLatency}
          THEN /\ Len(hcall.calls) = 1
               /\ hcall.calls[1].method = "latency"
               /\ hcall.calls[1].mode = "Capture" <=> hcall.call.mode = JackCaptureLatency
               /\ hcall.calls[1].mode = "Playback" <=> hcall.call.mode = JackPlaybackLatency
          ELSE hcall.calls = <<>>
    /\ hcall.call.kind = "latency_recompute"
       => /\ Len(hcall.calls) = 2
          /\ \A i \in 1..2 : hcall.calls[i].method = "latency"
          /\ hcall.calls[1].mode = "Capture"
          /\ hcall.calls[2].mode = "Playback"

\* A recompute has reached a handler as a Capture call and a Playback call, after a
\* call with another mode went unwound without reaching it.
C24_Witness ==
    /\ hcall.call.kind = "latency_recompute"
    /\ Len(hcall.calls) = 2
    /\ hcall.calls[1].mode = "Capture"
    /\ hcall.calls[2].mode = "Playback"
    /\ ub = "unwound"

\* C25: a handler that overrides no method never vetoes: whatever callbacks came
\* before and whatever the arguments, the process, buffer_size, sample_rate,
\* graph_order and xrun trampolines return the continue code for it, and a callback
\* on it changes no HandlerState and no state of the engine.
C25_DefaultNeverVetoes ==
    [][(/\ cret' = cret
        /\ hcall'.data # 0
        /\ heap[hcall'.data].handler = DefaultHandler)
       => /\ hcall'.call.kind \in {"process", "buffer_size", "sample_rate", "graph_order", "xrun"}
             => hcall'.code = to_ffi("Continue")
          /\ UNCHANGED <<heap, cbs, stopped, portVars, bufsize, open>>]_vars

\* The xrun trampoline has returned the continue code for a handler that overrides
\* no method, the second one registered.
C25_Witness ==
    /\ hcall.call.kind = "xrun"
    /\ hcall.data = 2
    /\ heap[2].handler = DefaultHandler
    /\ hcall.code = 0
    /\ stopped = {}

\* The application frees the HandlerState at an address.
ApplicationFrees(a) == FreeAfterClear(a) \/ FreeAfterReregister(a) \/ FreeAfterClose(a)

\* C26: the bridge never releases a HandlerState: a register_callbacks call makes
\* exactly one allocation and nothing else does; a live allocation stops being live
\* only by a free of the application, and a freed one is never live or freed again;
\* what the application has not freed is live after the client was closed.
C26_OnlyApplicationFrees ==
    [][/\ \A a \in Addrs :
             (heap[a].st = "live" /\ heap'[a].st # "live")
             => (heap'[a].st = "freed" /\ ApplicationFrees(a))
       /\ \A a \in Addrs : heap[a].st = "freed" => heap'[a] = heap[a]
       /\ \A a \in Addrs :
             (heap[a].st = "unallocated" /\ heap'[a].st # "unallocated")
             => /\ heap'[a].st = "live"
                /\ cret' = [op |-> "register_callbacks", val |-> [tag |-> "Ok", ptr |-> a]]
       /\ (cret' # cret /\ cret'.op = "register_callbacks")
          => Cardinality({a \in Addrs : heap[a].st = "unallocated"})
                = Cardinality({a \in Addrs : heap'[a].st = "unallocated"}) + 1
       /\ open' # open => heap' = heap]_vars

\* The client was closed after it registered twice and the application freed the
\* first HandlerState: the second, which nothing freed, is live.
C26_Witness ==
    /\ "app" \notin open
    /\ heap[1].st = "freed"
    /\ heap[1].how = "after_reregister"
    /\ heap[2].st = "live"
    /\ heap[2].client = "app"

\* C27: once register_callbacks has been called again on a client, every kind the
\* engine holds a callback of for that client is bound to the new HandlerState and
\* none to an earlier one, so that no callback is bound to a HandlerState the
\* application freed after it registered anew.
C27_ReregistrationRebinds ==
    \A c \in CbClients, k \in CallbackKinds :
        cbs[c][k] # 0
        => /\ cbs[c][k] = LatestOf(c)
           /\ ~(heap[cbs[c][k]].st = "freed" /\ heap[cbs[c][k]].how = "after_reregister")

====
